---- MODULE Spec2Model ----
(***************************************************************************)
(* The hand-tracking target game of the two scripts                        *)
(*   "A" = src/scripts/InitCorners.ts  (screen-corner targets, one round)  *)
(*   "B" = src/unnamed/part_000        (best score, replay via reset())    *)
(* as a state machine driven by the host's events: start pulses, countdown *)
(* driver iterations and completion, play-timer completion, and hand       *)
(* movements that change the hand/target overlap signals.                  *)
(*                                                                         *)
(* Host semantics the scripts rely on:                                     *)
(*  - EventSource.subscribe adds a handler; handlers stay subscribed until *)
(*    their Subscription is unsubscribed; all handlers of an event run, in *)
(*    turn, when the event fires.                                          *)
(*  - signal.monitor() fires on every change of the signal's value, in     *)
(*    either direction.                                                    *)
(*  - TimeDriver.start() starts a driver that is in its initial (or reset) *)
(*    state; a completed driver runs again only after reset().             *)
(* Lengths are in units of 0.05 world units, so that the script's 0.1      *)
(* collider length and its halves are integers.                            *)
(* Script B uses `targets` without declaring it; it is taken to be the     *)
(* same list of NumTargets scene objects, at the same places, as script    *)
(* A's createTargets returns.                                              *)
(***************************************************************************)
EXTENDS Integers, Sequences, FiniteSets, TLC

VARIABLES st, hands, pulses

vars == <<st, hands, pulses>>

(* ------------------------------ bounds --------------------------------- *)
MaxPulses == 2
MaxScore == 2
RandDen == 3
(* start pulses while both scripts run side by side: the first round *)
MaxPairPulses == 1

(* -------------------------- program constants -------------------------- *)
NumTargets == 4
NumHands == 2
ColliderLength == 2
CountdownFrom == 3
LoopCount == 3
Span == 6

Scripts == {"A", "B"}
NULL == -1
Hands == 1..NumHands

(* Random.random() returns k/RandDen for k in RandomValues *)
RandomValues == 0..(RandDen - 1)

(* Reactive.point(1, 1, 1) and Reactive.point(1.5, 1.5, 1.0), in tenths *)
ScaleNormal == <<10, 10, 10>>
ScaleActive == <<15, 15, 10>>

Abs(x) == IF x < 0 THEN -x ELSE x

(* the comparison without its bound: lt in place of le *)
checkCollisionStrict(positionA, positionB, lengthA, lengthB) ==
  Abs(positionA - positionB) < (lengthA \div 2) + (lengthB \div 2)

(* checkCollision(positionA, positionB, lengthA, lengthB) *)
checkCollision(positionA, positionB, lengthA, lengthB) ==
  Abs(positionA - positionB) <= (lengthA \div 2) + (lengthB \div 2)

(* the corners of createTargets, in order: target index 0..3 *)
TargetPos(i) ==
  CASE i = 0 -> <<0, 0>>
    [] i = 1 -> <<Span, 0>>
    [] i = 2 -> <<Span, Span>>
    [] OTHER -> <<0, Span>>

(* collision1 / collision2 of gameLoop: Reactive.and of the x and y checks *)
Collision(p, i) ==
  /\ checkCollision(p[1], TargetPos(i)[1], ColliderLength, ColliderLength)
  /\ checkCollision(p[2], TargetPos(i)[2], ColliderLength, ColliderLength)

(* positions a tracked hand point takes: a point on the edge of target 0's *)
(* box, the centre of target 1, and a point outside every box              *)
HandPoints == {<<2, 2>>, TargetPos(1), <<3, 3>>}

HandStart == <<3, 3>>

(* In the operators below, CHOOSE u \in {body(x) : x \in {t0}} : TRUE is  *)
(* body(t0) with t0 evaluated once.                                        *)

(* ------------------------- state of one script ------------------------- *)
(* Program state: score, bestScore, activeTargetIndex, the targets' scale  *)
(* and stored collision subscriptions, the handlers subscribed to the host *)
(* events, the two time drivers and the UI elements the handlers write.    *)
(* sub[h][i] is targets[i].collisionSubscription<h>: "null", or a          *)
(* reference to a subscription that is "live" or already unsubscribed      *)
(* ("dead"); live[h][i] counts the live watchers of hand h on target i,    *)
(* stored or not.                                                          *)
(* History fields, written by no handler's own code: phase, over, rounds,  *)
(* roundPulses, lastStarts, lastPick, ignored (no collision has been       *)
(* counted so far, and some watcher has fired for a target that was not    *)
(* the active one and returned at its test); draws holds the values        *)
(* Random.random() returns during the current event.                       *)
InitScript(s, n) ==
  [ n |-> n,
    score |-> 0,
    bestScore |-> 0,
    activeTargetIndex |-> NULL,
    scale |-> [i \in 0..(n - 1) |-> ScaleNormal],
    sub |-> [h \in Hands |-> [i \in 0..(n - 1) |-> "null"]],
    live |-> [h \in Hands |-> [i \in 0..(n - 1) |-> 0]],
    startPulseSubs |-> 1,
    afterIterationSubs |-> 0,
    countdownCompletedSubs |-> 0,
    driverCompletedSubs |-> IF s = "B" THEN 1 ELSE 0,
    timerSubs |-> 0,
    countdownDriver |-> [state |-> "idle", iteration |-> 0],
    driver |-> "idle",
    countdownHidden |-> TRUE,
    countdownText |-> NULL,
    targetParentHidden |-> TRUE,
    startButtonHidden |-> FALSE,
    timerHidden |-> TRUE,
    scoreHidden |-> TRUE,
    scoreText |-> <<"">>,
    collidedTargetIndex |-> NULL,
    collisionPulses |-> 0,
    phase |-> "idle",
    over |-> FALSE,
    rounds |-> 0,
    roundPulses |-> 0,
    lastStarts |-> 0,
    lastPick |-> "none",
    ignored |-> FALSE,
    draws |-> << >> ]

(* TimeDriver.start(): starts a driver that is in its initial/reset state *)
DriverStart(state) == IF state = "idle" THEN "running" ELSE state

(* ------------------------------ getRandomTarget ------------------------ *)
(* targets.filter((el, index) => index !== activeTargetIndex), as the      *)
(* sequence of the originalIndex of the elements kept                      *)
RECURSIVE FilterFrom(_, _, _)
FilterFrom(i, n, active) ==
  IF i >= n THEN << >>
  ELSE (IF i # active THEN <<i>> ELSE << >>) \o FilterFrom(i + 1, n, active)

(* the filter dropped: every target stays a candidate *)
nextOptionsUnfiltered(t) == FilterFrom(0, t.n, NULL)

nextOptions(t) == FilterFrom(0, t.n, t.activeTargetIndex)

(* Math.floor(Random.random() * nextOptions.length), Random.random() = r/RandDen *)
randomIndex(r, length) == (r * length) \div RandDen

(* With no candidate left, nextOptions[randomIndex] is undefined and        *)
(* activeTarget.target throws a TypeError, after Random.random() was        *)
(* called: the function ends there (lastPick = "error") and so does the     *)
(* handler that called it.                                                  *)
getRandomTarget(t0) ==
  LET set(t, activeTarget) ==
        [t EXCEPT !.scale[activeTarget] = ScaleActive,
                  !.lastPick = IF t.activeTargetIndex = NULL THEN "first"
                               ELSE IF activeTarget = t.activeTargetIndex THEN "same"
                               ELSE "different",
                  !.activeTargetIndex = activeTarget,
                  !.draws = Tail(t.draws)]
      pick(t, options) ==
        IF Len(options) = 0
        THEN [t EXCEPT !.lastPick = "error",
                       !.draws = Tail(t.draws)]
        ELSE CHOOSE u \in {set(t, activeTarget) :
                             activeTarget \in
                               {options[randomIndex(Head(t.draws), Len(options)) + 1]}} : TRUE
      body(t) == CHOOSE u \in {pick(t, options) : options \in {nextOptions(t)}} : TRUE
  IN CHOOSE u \in {body(x) : x \in {t0}} : TRUE

(* -------------------------------- gameLoop ----------------------------- *)
(* every target gets a new watcher per hand; the new Subscription replaces *)
(* whatever collisionSubscription1/2 held                                  *)
gameLoop(t0) ==
  LET body(t) ==
        [t EXCEPT !.live = [h \in Hands |-> [i \in 0..(t.n - 1) |-> t.live[h][i] + 1]],
                  !.sub = [h \in Hands |-> [i \in 0..(t.n - 1) |-> "live"]]]
  IN CHOOSE u \in {body(x) : x \in {t0}} : TRUE

(* ------------------------------- startGame ----------------------------- *)
startGame(s, t) ==
  LET t1 == [t EXCEPT !.targetParentHidden = FALSE,
                      !.startButtonHidden = TRUE,
                      !.timerHidden = FALSE,
                      !.scoreHidden = FALSE,
                      !.driver = DriverStart(@),
                      !.timerSubs = @ + 1,
                      !.driverCompletedSubs = IF s = "A" THEN @ + 1 ELSE @,
                      !.phase = "playing",
                      !.over = FALSE,
                      !.lastStarts = @ + 1]
      rest(t2) == IF t2.lastPick = "error" THEN t2 ELSE gameLoop(t2)
  IN CHOOSE u \in {rest(x) : x \in {getRandomTarget(t1)}} : TRUE

(* a collisionCallback that keeps the target it was called for active *)
collisionCallbackKeepsTarget(t, index) ==
  [t EXCEPT !.collidedTargetIndex = index,
            !.collisionPulses = @ + 1,
            !.score = @ + 1,
            !.scoreText = <<"score", t.score + 1>>]

(* ---------------------------- collisionCallback ------------------------ *)
collisionCallback(t, index) ==
  LET t1 == [t EXCEPT !.scale[index] = ScaleNormal,
                      !.ignored = FALSE,
                      !.collidedTargetIndex = index,
                      !.collisionPulses = @ + 1,
                      !.score = @ + 1,
                      !.scoreText = <<"score", t.score + 1>>]
  IN getRandomTarget(t1)

(* a watcher that reports the target to the patch editor before its test *)
WatcherReportsAll(t0, i) ==
  LET body(t) == IF i # t.activeTargetIndex
                 THEN [t EXCEPT !.ignored = (t.collisionPulses = 0),
                                !.collidedTargetIndex = i]
                 ELSE collisionCallback(t, i)
  IN CHOOSE u \in {body(x) : x \in {t0}} : TRUE

(* one watcher of target i: if (i !== activeTargetIndex) return; ... *)
Watcher(t0, i) ==
  LET body(t) == IF i # t.activeTargetIndex
                 THEN [t EXCEPT !.ignored = (t.collisionPulses = 0)]
                 ELSE collisionCallback(t, i)
  IN CHOOSE u \in {body(x) : x \in {t0}} : TRUE

(* all live watchers of hand h on target i, run in turn *)
RECURSIVE FireWatchers(_, _, _)
FireWatchers(t, i, k) ==
  IF k = 0 THEN t ELSE FireWatchers(Watcher(t, i), i, k - 1)

(* the signals of hand h that changed, in the order ord the host reports them *)
RECURSIVE FireSignals(_, _, _)
FireSignals(t0, h, ord) ==
  IF ord = << >> THEN t0
  ELSE LET i == Head(ord)
           body(t) == IF i < t.n THEN FireWatchers(t, i, t.live[h][i]) ELSE t
       IN FireSignals(CHOOSE u \in {body(x) : x \in {t0}} : TRUE, h, Tail(ord))

(* --------------------------------- reset ------------------------------- *)
(* script B's reset(): one more handler on startPulse *)
reset(t) == [t EXCEPT !.startPulseSubs = @ + 1]

(* --------------------------------- gameOver ---------------------------- *)
(* target.collisionSubscriptionN.unsubscribe() for every target *)
Unsubscribe(t0) ==
  LET body(t) ==
        [t EXCEPT !.live = [h \in Hands |-> [i \in 0..(t.n - 1) |->
                              IF t.sub[h][i] = "live" THEN t.live[h][i] - 1
                                                      ELSE t.live[h][i]]],
                  !.sub = [h \in Hands |-> [i \in 0..(t.n - 1) |->
                              IF t.sub[h][i] = "live" THEN "dead" ELSE t.sub[h][i]]]]
  IN CHOOSE u \in {body(x) : x \in {t0}} : TRUE

(* the comparison turned around *)
BestScoreAfterFlipped(score, bestScore) == IF score < bestScore THEN score ELSE bestScore

(* score > bestScore ? (bestScore = score) : null *)
BestScoreAfter(score, bestScore) == IF score > bestScore THEN score ELSE bestScore

gameOverA(t) ==
  Unsubscribe([t EXCEPT !.timerHidden = TRUE,
                        !.targetParentHidden = TRUE,
                        !.phase = "gameover",
                        !.over = TRUE,
                        !.rounds = @ + 1,
                        !.roundPulses = 0])

(* a gameOver that also clears the score *)
gameOverBClearsScore(t0) ==
  LET body(t) ==
        LET t1 == Unsubscribe([t EXCEPT !.timerHidden = TRUE,
                                        !.targetParentHidden = TRUE,
                                        !.bestScore = BestScoreAfter(t.score, @),
                                        !.phase = "gameover",
                                        !.over = TRUE,
                                        !.rounds = @ + 1,
                                        !.roundPulses = 0])
        IN reset([t1 EXCEPT !.scoreText = <<"Your current score is ", t.score,
                                            "Your best score is ", t1.bestScore>>,
                            !.score = 0,
                            !.scoreHidden = FALSE,
                            !.startButtonHidden = FALSE,
                            !.driver = "idle",
                            !.countdownDriver = [state |-> "idle", iteration |-> 0]])
  IN CHOOSE u \in {body(x) : x \in {t0}} : TRUE

gameOverB(t0) ==
  LET body(t) ==
        LET t1 == Unsubscribe([t EXCEPT !.timerHidden = TRUE,
                                        !.targetParentHidden = TRUE,
                                        !.bestScore = BestScoreAfter(t.score, @),
                                        !.phase = "gameover",
                                        !.over = TRUE,
                                        !.rounds = @ + 1,
                                        !.roundPulses = 0])
        IN reset([t1 EXCEPT !.scoreText = <<"Your current score is ", t.score,
                                            "Your best score is ", t1.bestScore>>,
                            !.scoreHidden = FALSE,
                            !.startButtonHidden = FALSE,
                            !.driver = "idle",
                            !.countdownDriver = [state |-> "idle", iteration |-> 0]])
  IN CHOOSE u \in {body(x) : x \in {t0}} : TRUE

gameOver(s, t) == IF s = "A" THEN gameOverA(t) ELSE gameOverB(t)

(* ------------------------- handlers of host events --------------------- *)
(* the callback given to startPulse.subscribe *)
StartPulseHandler(t) ==
  [t EXCEPT !.countdownHidden = FALSE,
            !.countdownText = CountdownFrom,
            !.countdownDriver.state = DriverStart(@),
            !.afterIterationSubs = @ + 1,
            !.countdownCompletedSubs = @ + 1]

(* the callback given to countdownDriver.onAfterIteration().subscribe *)
AfterIterationHandler(t, i) == [t EXCEPT !.countdownText = CountdownFrom - i]

(* the callback given to countdownDriver.onCompleted().subscribe *)
CountdownCompletedHandler(s, t) ==
  startGame(s, [t EXCEPT !.countdownHidden = TRUE])

(* the handler without its gameOver() call *)
DriverCompletedHandlerNoGameOver(s, t) ==
  IF s = "A" THEN [t EXCEPT !.timerSubs = @ - 1] ELSE t

(* the callback given to driver.onCompleted().subscribe *)
DriverCompletedHandler(s, t) ==
  IF s = "A" THEN gameOver(s, [t EXCEPT !.timerSubs = @ - 1])
             ELSE gameOver(s, t)

(* k handlers of one event, run in turn *)
RECURSIVE RunStartPulse(_, _)
RunStartPulse(t, k) ==
  IF k = 0 THEN t ELSE RunStartPulse(StartPulseHandler(t), k - 1)

RECURSIVE RunDriverCompleted(_, _, _)
RunDriverCompleted(s, t, k) ==
  IF k = 0 THEN t ELSE RunDriverCompleted(s, DriverCompletedHandler(s, t), k - 1)

(* ------------------------- the host's events, per script --------------- *)
OnStartPulse(t) ==
  RunStartPulse([t EXCEPT !.phase = "countdown",
                          !.roundPulses = @ + 1],
                t.startPulseSubs)

IterationEnabled(t) ==
  t.countdownDriver.state = "running" /\ t.countdownDriver.iteration < LoopCount

OnIteration(t) ==
  IF ~IterationEnabled(t) THEN t
  ELSE LET i == t.countdownDriver.iteration + 1
       IN IF t.afterIterationSubs = 0
          THEN [t EXCEPT !.countdownDriver.iteration = i]
          ELSE AfterIterationHandler([t EXCEPT !.countdownDriver.iteration = i], i)

CountdownDone(t) ==
  t.countdownDriver.state = "running" /\ t.countdownDriver.iteration = LoopCount

(* the j-th onCompleted handler of the countdown driver, Random.random()   *)
(* returning r/RandDen in it; a script with fewer handlers is done already *)
CountdownCompletedStep(s, t, j, k, r) ==
  IF j > k THEN t
  ELSE [CountdownCompletedHandler(s, [t EXCEPT !.draws = <<r>>]) EXCEPT !.draws = << >>]

OnDriverCompleted(s, t) ==
  IF t.driver # "running" THEN t
  ELSE RunDriverCompleted(s, [t EXCEPT !.driver = "done"], t.driverCompletedSubs)

OnHandMove(t, h, ord, rs) ==
  [FireSignals([t EXCEPT !.draws = rs], h, ord) EXCEPT !.draws = << >>]

(* ------------------------------- the system ---------------------------- *)
Running == DOMAIN st

Max(S) == CHOOSE x \in S : \A y \in S : y <= x

Orderings(S) ==
  {f \in [1..Cardinality(S) -> S] : \A a, b \in 1..Cardinality(S) : a # b => f[a] # f[b]}

Init ==
  /\ \E s \in Scripts : st = [x \in {s} |-> InitScript(x, NumTargets)]
  /\ hands = [h \in Hands |-> HandStart]
  /\ pulses = 0

InitPair ==
  /\ st = [x \in Scripts |-> InitScript(x, NumTargets)]
  /\ hands = [h \in Hands |-> HandStart]
  /\ pulses = 0

StartPulse ==
  /\ pulses < MaxPulses
  /\ pulses' = pulses + 1
  /\ st' = [s \in Running |-> OnStartPulse(st[s])]
  /\ UNCHANGED hands

CountdownIteration ==
  /\ \E s \in Running : IterationEnabled(st[s])
  /\ st' = [s \in Running |-> OnIteration(st[s])]
  /\ UNCHANGED <<hands, pulses>>

(* the states the running scripts can be in after handlers j..kmax of the  *)
(* countdown driver's onCompleted event, from the states in S; k[s] is the *)
(* number of handlers script s has subscribed (0 if its driver is not      *)
(* completing)                                                             *)
RECURSIVE CompletedStages(_, _, _, _)
CompletedStages(S, j, kmax, k) ==
  IF j > kmax THEN S
  ELSE CompletedStages(
         {[s \in Running |-> CountdownCompletedStep(s, x[s], j, k[s], r)] :
            x \in S, r \in RandomValues},
         j + 1, kmax, k)

CountdownCompleted ==
  /\ \E s \in Running : CountdownDone(st[s])
  /\ LET k == [s \in Running |->
                IF CountdownDone(st[s]) THEN st[s].countdownCompletedSubs ELSE 0]
         begun == [s \in Running |->
                    IF CountdownDone(st[s])
                    THEN [st[s] EXCEPT !.countdownDriver.state = "done",
                                       !.lastStarts = 0]
                    ELSE st[s]]
     IN st' \in CompletedStages({begun}, 1, Max({k[s] : s \in Running}), k)
  /\ UNCHANGED <<hands, pulses>>

DriverCompleted ==
  /\ \E s \in Running : st[s].driver = "running"
  /\ UNCHANGED <<hands, pulses>>
  /\ st' = [s \in Running |-> OnDriverCompleted(s, st[s])]

(* The values Random.random() can return, in turn, while the watchers of   *)
(* hand h's signals ord run, p being the values returned so far: a further *)
(* value is drawn only when some script has used all of p. Values nobody   *)
(* reads are 0, up to n of them.                                           *)
RECURSIVE DrawSeqs(_, _, _, _)
DrawSeqs(h, ord, p, n) ==
  LET pad == p \o [i \in 1..(n - Len(p)) |-> 0]
  IN IF Len(p) < n /\ \E s \in Running :
          Len(FireSignals([st[s] EXCEPT !.draws = pad], h, ord).draws) < n - Len(p)
     THEN UNION {DrawSeqs(h, ord, Append(p, r), n) : r \in RandomValues}
     ELSE {pad}

(* One hand point moves. The overlap signals of that hand whose value      *)
(* changes fire their watchers; unless one of them belongs to the active   *)
(* target of a script that watches it, every watcher returns at its test   *)
(* and neither the order of the signals nor Random.random() matters.       *)
HandMove ==
  \E h \in Hands, q \in HandPoints :
    /\ q # hands[h]
    /\ LET hs == [hands EXCEPT ![h] = q]
           changed == {i \in 0..(NumTargets - 1) :
                         Collision(hands[h], i) # Collision(q, i)}
           hit == \E s \in Running, i \in changed :
                    i = st[s].activeTargetIndex /\ st[s].live[h][i] > 0
           draws == IF hit THEN Cardinality(changed) ELSE 0
           orders == IF hit THEN Orderings(changed)
                     ELSE {CHOOSE ord \in Orderings(changed) : TRUE}
       IN /\ st' \in UNION {{[s \in Running |-> OnHandMove(st[s], h, ord, rs)] :
                                rs \in DrawSeqs(h, ord, << >>, draws)} :
                             ord \in orders}
          /\ \A s \in Running : st'[s].score <= MaxScore
          /\ hands' = hs
    /\ UNCHANGED pulses

Next ==
  \/ StartPulse
  \/ CountdownIteration
  \/ CountdownCompleted
  \/ DriverCompleted
  \/ HandMove

Spec == Init /\ [][Next]_vars

(* both scripts through a first round: Next with at most MaxPairPulses     *)
(* start pulses                                                            *)
PairNext ==
  \/ pulses < MaxPairPulses /\ StartPulse
  \/ CountdownIteration
  \/ CountdownCompleted
  \/ DriverCompleted
  \/ HandMove

SpecPair == InitPair /\ [][PairNext]_vars

FairSpec == Spec /\ WF_vars(DriverCompleted)

(* --------------------- the tracked hand points alone ------------------- *)
(* Before the game starts the hand points move freely: each is a point     *)
(* <<x, y, z>> of a grid that reaches one unit beyond the targets' corners *)
(* and moves one unit along one axis at a time.                            *)
Coords == -1..(Span + 1)
Depths == {0, 1}
TrackPoints == Coords \X Coords \X Depths

TrackStart == <<HandStart[1], HandStart[2], 0>>

InitTrack ==
  /\ st = [x \in {"A"} |-> InitScript(x, NumTargets)]
  /\ hands = [h \in Hands |-> TrackStart]
  /\ pulses = 0

HandTrack ==
  \E h \in Hands, q \in TrackPoints :
    /\ Abs(q[1] - hands[h][1]) + Abs(q[2] - hands[h][2]) + Abs(q[3] - hands[h][3]) = 1
    /\ hands' = [hands EXCEPT ![h] = q]
    /\ UNCHANGED <<st, pulses>>

SpecTrack == InitTrack /\ [][HandTrack]_vars

(* ------------------- script B with the scene's targets ----------------- *)
(* Script B takes `targets` from the scene: any number of them from 1 to   *)
(* NumTargets, at the first corners.                                       *)
InitScene ==
  /\ \E n \in 1..NumTargets : st = [x \in {"B"} |-> InitScript(x, n)]
  /\ hands = [h \in Hands |-> HandStart]
  /\ pulses = 0

SpecScene == InitScene /\ [][Next]_vars

(* ================================ claims =============================== *)
Targets(t) == 0..(t.n - 1)

(* C1: whenever getRandomTarget runs with an active target set (and at     *)
(* least two targets), the index it chooses is a valid index of targets    *)
(* and differs from the index that was active before the call, whatever    *)
(* Random.random() returns.                                                *)
C1_NewTargetDiffers ==
  \A s \in Running :
    /\ st[s].lastPick # "same"
    /\ st[s].lastPick # "none" => st[s].activeTargetIndex \in Targets(st[s])

(* a collision has made getRandomTarget choose again, away from the target hit *)
C1_Witness ==
  \E s \in Running :
    /\ st[s].lastPick = "different"
    /\ st[s].score > 0
    /\ st[s].collidedTargetIndex # st[s].activeTargetIndex

(* C2: after gameOver has run and until the next startGame, no collision   *)
(* watcher is subscribed, so overlap changes cannot change score or        *)
(* activeTargetIndex.                                                      *)
C2_NoWatcherAfterGameOver ==
  \A s \in Running :
    st[s].over => \A h \in Hands, i \in Targets(st[s]) : st[s].live[h][i] = 0

(* C3: every increment of score happens while at least one hand point is   *)
(* inside the box of the target that was active just before the increment. *)
C3_ScoreOnlyOnOverlap ==
  [][\A s \in Running :
       st'[s].score > st[s].score =>
         \E h \in Hands : Collision(hands'[h], st[s].activeTargetIndex)]_vars

(* C4: phases follow idle, countdown, playing, game over (and, on replay,  *)
(* countdown again); a countdown completion runs startGame once; start     *)
(* pulses during countdown or play neither skip nor re-enter a phase.      *)
PhaseSteps ==
  {<<"idle", "countdown">>, <<"countdown", "playing">>,
   <<"playing", "gameover">>, <<"gameover", "countdown">>}

C4_PhaseOrder ==
  [][\A s \in Running :
       /\ st'[s].phase # st[s].phase => <<st[s].phase, st'[s].phase>> \in PhaseSteps
       /\ st'[s].lastStarts <= 1]_vars

(* C5: once the play timer driver runs, it completes and gameOver runs:    *)
(* every playing phase is followed by a game-over phase.                   *)
(* (one script runs in a behaviour of FairSpec, so "some script" is "the   *)
(* script")                                                                *)
C5_TimerEndsGame ==
  (\E s \in Running : st[s].driver = "running") ~> (\E s \in Running : st[s].over)

(* a game over reached after the score limit of collisions *)
C5_Witness ==
  \E s \in Running : st[s].over /\ st[s].score = MaxScore

(* C6: from the first startGame on, a target with the enlarged scale is    *)
(* the target at activeTargetIndex, so at most one target is enlarged.     *)
C6_OnlyActiveEnlarged ==
  \A s \in Running :
    st[s].activeTargetIndex # NULL =>
      \A i \in Targets(st[s]) :
        st[s].scale[i] = ScaleActive => i = st[s].activeTargetIndex

(* C7: in script B bestScore never decreases, only gameOver changes it,    *)
(* and after gameOver it is the maximum of its previous value and score.   *)
C7_BestScore ==
  [][\A s \in Running \cap {"B"} :
       /\ st'[s].bestScore >= st[s].bestScore
       /\ st'[s].rounds = st[s].rounds => st'[s].bestScore = st[s].bestScore
       /\ st'[s].rounds # st[s].rounds =>
            /\ st'[s].bestScore =
                 (IF st'[s].score > st[s].bestScore THEN st'[s].score
                                                    ELSE st[s].bestScore)
            /\ st'[s].bestScore >= st'[s].score]_vars

(* script B after a game over that recorded a positive best score *)
C7_Witness ==
  \E s \in Running \cap {"B"} : st[s].rounds >= 1 /\ st[s].bestScore >= 1

(* C8: in script B, when the play phase of a round after the first begins, *)
(* score is 0.                                                             *)
C8_ScoreResetOnReplay ==
  [][\A s \in Running \cap {"B"} :
       (st[s].rounds >= 1 /\ st[s].phase # "playing" /\ st'[s].phase = "playing")
         => st'[s].score = 0]_vars

(* C9: in script B, in every round, one start pulse followed by the        *)
(* countdown completing runs startGame exactly once.                       *)
C9_OneStartPerPulse ==
  \A s \in Running \cap {"B"} :
    (st[s].phase = "playing" /\ st[s].roundPulses = 1) => st[s].lastStarts = 1

(* C10: driven by the same events of a first round with one start pulse,   *)
(* both scripts hold the same score, activeTargetIndex and target scales.  *)
C10_SameGame ==
  (Running = Scripts /\ pulses <= 1) =>
    /\ st["A"].score = st["B"].score
    /\ st["A"].activeTargetIndex = st["B"].activeTargetIndex
    /\ st["A"].scale = st["B"].scale

(* both scripts at game over of the first round, after collisions *)
C10_Witness ==
  /\ Running = Scripts
  /\ pulses = 1
  /\ st["A"].over /\ st["B"].over
  /\ st["A"].score = MaxScore /\ st["B"].score = MaxScore

(* the overlap signals of hand h that differ between hand positions p and q *)
ChangedSignals(p, q, n) == {i \in 0..(n - 1) : Collision(p, i) # Collision(q, i)}

(* C11: a change of the active target's overlap signal adds exactly 1 to   *)
(* score and selects another target, however many watchers are registered  *)
(* for that target; a hand movement adds at most 1 per signal it changes.  *)
C11_HitScoresOnce ==
  [][\A s \in Running, h \in Hands :
       hands'[h] # hands[h] =>
         \A changed \in {ChangedSignals(hands[h], hands'[h], st[s].n)} :
           LET active == st[s].activeTargetIndex
           IN /\ st'[s].score - st[s].score <= Cardinality(changed)
              /\ (changed = {active} /\ st[s].live[h][active] > 0) =>
                   /\ st'[s].score = st[s].score + 1
                   /\ st'[s].activeTargetIndex \in Targets(st[s]) \ {active}]_vars

(* script A in its only round, two watchers per hand on every target, has  *)
(* scored                                                                  *)
C11_Witness ==
  \E s \in Running \cap {"A"} :
    /\ st[s].rounds = 0
    /\ st[s].score >= 1
    /\ \A h \in Hands, i \in Targets(st[s]) : st[s].live[h][i] >= 2

(* what a script shows of the game: score, activeTargetIndex, the targets' *)
(* scales, the score text and the patch inputs                             *)
GameView(t) ==
  <<t.score, t.activeTargetIndex, t.scale, t.scoreText,
    t.collidedTargetIndex, t.collisionPulses>>

(* C12: watchers that fire for targets other than the active one change    *)
(* nothing: a hand movement that leaves the active target's overlap signal *)
(* as it was leaves score, activeTargetIndex, every scale, the score text  *)
(* and the patch inputs collidedTargetIndex and collisionPulse unchanged.  *)
C12_InactiveTargetIgnored ==
  [][\A s \in Running, h \in Hands :
       (/\ hands'[h] # hands[h]
        /\ st[s].activeTargetIndex \notin
             ChangedSignals(hands[h], hands'[h], st[s].n))
         => GameView(st'[s]) = GameView(st[s])]_vars

(* in the first round, before any hit, a watcher of a target that is not   *)
(* active has fired                                                        *)
C12_Witness ==
  \E s \in Running :
    /\ st[s].ignored
    /\ st[s].phase = "playing"
    /\ st[s].rounds = 0
    /\ st[s].collisionPulses = 0
    /\ st[s].score = 0

(* C13: once gameOver has run and until the next startGame, no             *)
(* subscription to animation.monitor() made by startGame is still          *)
(* subscribed (so nothing writes timerUI.text).                            *)
C13_TimerMonitorUnsubscribed ==
  \A s \in Running : st[s].over => st[s].timerSubs = 0

(* collider lengths, in units of 0.05: multiples of 0.1 *)
Lengths == {0, ColliderLength, 2 * ColliderLength}

(* C14: checkCollision(positionA, positionB, lengthA, lengthB) is true     *)
(* exactly when |positionA - positionB| <= lengthA/2 + lengthB/2, the      *)
(* bound included; a hand point collides with a target exactly when its x  *)
(* and its y are both within 0.1 (ColliderLength units) of the target's,   *)
(* whatever its z.                                                         *)
C14_CollisionBox ==
  \A h \in Hands, i \in 0..(NumTargets - 1) :
    LET dx == hands[h][1] - TargetPos(i)[1]
        dy == hands[h][2] - TargetPos(i)[2]
    IN /\ \A lengthA, lengthB \in Lengths :
            checkCollision(hands[h][1], TargetPos(i)[1], lengthA, lengthB)
              <=> (2 * dx <= lengthA + lengthB /\ -2 * dx <= lengthA + lengthB)
       /\ Collision(hands[h], i)
            <=> (/\ dx \in (-ColliderLength)..ColliderLength
                 /\ dy \in (-ColliderLength)..ColliderLength)
       /\ \A g \in Hands :
            (hands[g][1] = hands[h][1] /\ hands[g][2] = hands[h][2])
              => (Collision(hands[g], i) <=> Collision(hands[h], i))

(* one hand point on the corner of a target's box, the other at the same x *)
(* and y at another depth                                                  *)
C14_Witness ==
  \E h, g \in Hands, i \in 0..(NumTargets - 1) :
    /\ Abs(hands[h][1] - TargetPos(i)[1]) = ColliderLength
    /\ Abs(hands[h][2] - TargetPos(i)[2]) = ColliderLength
    /\ Collision(hands[h], i)
    /\ hands[g][1] = hands[h][1] /\ hands[g][2] = hands[h][2]
    /\ Len(hands[g]) = 3 /\ hands[g][3] # hands[h][3]

C16_CountdownTicksDown ==
  [][\A s \in Running :
       LET cd == st[s].countdownDriver
           cdNext == st'[s].countdownDriver
       IN /\ pulses' # pulses =>
               /\ st'[s].countdownText = CountdownFrom
               /\ ~st'[s].countdownHidden
          /\ cdNext.iteration = cd.iteration + 1 =>
               st'[s].countdownText = CountdownFrom - cdNext.iteration
          /\ (cd.state = "running" /\ cdNext.state = "running") =>
               st'[s].countdownText <= st[s].countdownText
          /\ st'[s].countdownText \in {NULL} \cup 0..CountdownFrom
          /\ (cd.state = "running" /\ cdNext.state = "done") =>
               st'[s].countdownHidden]_vars

(* C17: every live collision subscription is the one stored in             *)
(* collisionSubscription1/2 of its target: per hand and target there is at *)
(* most one live watcher, and there is one exactly when the stored         *)
(* subscription is live.                                                   *)
C17_LiveSubscriptionsTracked ==
  \A s \in Running :
    \A h \in Hands, i \in Targets(st[s]) :
      st[s].live[h][i] = (IF st[s].sub[h][i] = "live" THEN 1 ELSE 0)

====
